---- MODULE Spec2Model ----
(***************************************************************************)
(* A model of bin/runmigration.js: the command-line migration runner.      *)
(* The source file holds two variants of the script (lines 1-268 and       *)
(* 269-457); `variant` says which one an invocation runs.                  *)
(*                                                                         *)
(* File names are sequences of one-character strings, so that the filter   *)
(* on the first character and the suffix, the split at '-' and parseInt    *)
(* are computed as the script computes them.                               *)
(***************************************************************************)
EXTENDS Integers, Sequences, FiniteSets

(***************************************************************************)
(* Bounds of the model.                                                    *)
(***************************************************************************)
\* entries of the migrations directory (catalog and range-resolution checks)
MaxFiles == 3

\* the largest --pos passed
MaxPos == 2

\* invocations in a row (round-trip check)
MaxRuns == 2

(***************************************************************************)
(* Values.                                                                 *)
(***************************************************************************)
\* parseInt's NaN; every revision parsed from digits is >= 0
NaN == -1

(***************************************************************************)
(* The directory entries the model draws from.  `module` is what           *)
(* require() of the file does: "ok" yields a migration object whose        *)
(* info.revision is `revision`, "throws" raises, "falsy" yields a falsy    *)
(* export.                                                                 *)
(***************************************************************************)
File(n, m, r) == [name |-> n, module |-> m, revision |-> r]

F1a == File(<<"1", "-", "a", ".", "j", "s">>, "ok", 1)

F2b == File(<<"2", "-", "b", ".", "j", "s">>, "ok", 2)

F2z == File(<<"2", "-", "z", ".", "j", "s">>, "ok", 2)

F10c == File(<<"1", "0", "-", "c", ".", "j", "s">>, "ok", 10)

\* a hand-named migration: no numeric prefix
Fxd == File(<<"x", "-", "d", ".", "j", "s">>, "ok", 3)

\* a script that fails to load
F3e == File(<<"3", "-", "e", ".", "j", "s">>, "throws", 3)

\* a script with a falsy export
F4f == File(<<"4", "-", "f", ".", "j", "s">>, "falsy", 4)

\* a dot file
FDot5g == File(<<".", "5", "-", "g", ".", "j", "s">>, "ok", 5)

\* not a .js file
F6h == File(<<"6", "-", "h", ".", "t", "s">>, "ok", 6)

FilePool == { F1a, F2b, F2z, F10c, Fxd, F3e, F4f, FDot5g, F6h }

\* migrations named <revision>-<name>.js, info.revision being that revision
GeneratedPool == { F1a, F2b, F2z, F10c }

\* fs.readdirSync: the entries in an order the file system chooses
RECURSIVE SeqsOver(_, _)
SeqsOver(S, n) ==
    IF n = 0 THEN { <<>> }
    ELSE LET shorter == SeqsOver(S, n - 1)
         IN  shorter \cup
             { Append(s, f) : s \in { t \in shorter : Len(t) = n - 1 },
                              f \in S }

Range(s) == { s[i] : i \in 1..Len(s) }

Dirs == { d \in SeqsOver(FilePool, MaxFiles) : Cardinality(Range(d)) = Len(d) }

GeneratedDirs == { d \in Dirs : Range(d) \subseteq GeneratedPool }

\* the directories the whole-invocation checks draw from
MainDirs ==
    { <<>>,
      << F10c, F1a, F2b >>,
      << F2z, F2b >>,
      << F2b, Fxd, F1a >>,
      << F1a, F3e >>,
      << F4f, F2b >>,
      << FDot5g, F6h, F1a >>,
      << FDot5g, F6h >> }

(***************************************************************************)
(* String functions of the script.                                         *)
(***************************************************************************)
\* path.basename of a name: what follows the last '/'
Basename(s) ==
    LET slashes == { i \in 1..Len(s) : s[i] = "/" }
        last == IF slashes = {} THEN 0
                ELSE CHOOSE i \in slashes : \A j \in slashes : j <= i
    IN  SubSeq(s, last + 1, Len(s))

\* s.split('-', 2)[0]: what precedes the first '-', the whole string if none
SplitFirst(s) ==
    LET dashes == { i \in 1..Len(s) : s[i] = "-" }
        first == IF dashes = {} THEN Len(s) + 1
                 ELSE CHOOSE i \in dashes : \A j \in dashes : i <= j
    IN  SubSeq(s, 1, first - 1)

Digits == { "0", "1", "2", "3", "4", "5", "6", "7", "8", "9" }

DigitVal(c) ==
    CASE c = "0" -> 0 [] c = "1" -> 1 [] c = "2" -> 2 [] c = "3" -> 3
      [] c = "4" -> 4 [] c = "5" -> 5 [] c = "6" -> 6 [] c = "7" -> 7
      [] c = "8" -> 8 [] c = "9" -> 9

RECURSIVE DecimalValue(_)
DecimalValue(s) ==
    IF s = <<>> THEN 0
    ELSE 10 * DecimalValue(SubSeq(s, 1, Len(s) - 1)) + DigitVal(s[Len(s)])

\* parseInt: the value of the leading run of digits, NaN when there is none
ParseInt(s) ==
    LET stops == { i \in 1..Len(s) : s[i] \notin Digits }
        n == IF stops = {} THEN Len(s)
             ELSE (CHOOSE i \in stops : \A j \in stops : i <= j) - 1
    IN  IF n = 0 THEN NaN ELSE DecimalValue(SubSeq(s, 1, n))

\* the revision the sort reads from a file name
NameRevision(name) == ParseInt(SplitFirst(Basename(name)))

\* JavaScript's < and > on numbers: false when either side is NaN
Less(a, b) == a # NaN /\ b # NaN /\ a < b

\* the readdir filter: not a dot file, and ending in ".js"
Eligible(name) ==
    /\ ~(Len(name) >= 1 /\ name[1] = ".")
    /\ Len(name) >= 3
    /\ SubSeq(name, Len(name) - 2, Len(name)) = <<".", "j", "s">>

(***************************************************************************)
(* The sort by revision.                                                   *)
(***************************************************************************)
\* the comparator's decision on the two revisions
CompareRevisions(revA, revB, rollback) ==
    IF rollback
    THEN IF Less(revA, revB) THEN 1
         ELSE IF Less(revB, revA) THEN -1
         ELSE 0
    ELSE IF Less(revA, revB) THEN -1
         ELSE IF Less(revB, revA) THEN 1
         ELSE 0

\* a plausible slip: the rollback flag ignored
CompareIgnoringRollback(a, b, rollback) ==
    CompareRevisions(NameRevision(a.name), NameRevision(b.name), FALSE)

\* the comparator handed to Array.prototype.sort
Compare(a, b, rollback) ==
    CompareRevisions(NameRevision(a.name), NameRevision(b.name), rollback)

\* Array.prototype.sort with a consistent comparator: the stable sort, here
\* by insertion (x goes before the trailing run of elements that compare
\* greater)
InsertSorted(s, x, rollback) ==
    LET after == { j \in 1..Len(s) :
                     \A k \in j..Len(s) : Compare(s[k], x, rollback) > 0 }
        at == IF after = {} THEN Len(s) + 1
              ELSE CHOOSE j \in after : \A k \in after : j <= k
    IN  SubSeq(s, 1, at - 1) \o <<x>> \o SubSeq(s, at, Len(s))

RECURSIVE SortFiles(_, _)
SortFiles(s, rollback) ==
    IF s = <<>> THEN <<>>
    ELSE InsertSorted(SortFiles(SubSeq(s, 1, Len(s) - 1), rollback),
                      s[Len(s)], rollback)

FilterEligible(d) == SelectSeq(d, LAMBDA f : Eligible(f.name))

\* variant 1 requires each eligible file while it builds the list
LoadThrows(d) == \E i \in 1..Len(d) : Eligible(d[i].name) /\ d[i].module = "throws"

\* whether the comparator is a consistent comparator for the elements of s, as
\* Array.prototype.sort requires (comparing equal is transitive).  The
\* comparator orders by revision and makes a NaN revision equal to everything:
\* it is consistent unless a NaN revision stands beside two revisions that
\* differ.
ConsistentComparator(s) ==
    LET revs == { NameRevision(s[i].name) : i \in 1..Len(s) }
    IN  NaN \in revs => Cardinality(revs) <= 2

Orderings(s) ==
    { p \in SeqsOver(Range(s), Len(s)) : Len(p) = Len(s) /\ Range(p) = Range(s) }

\* what .sort(...) can leave: the sorted array, or, with a comparator that is
\* not consistent, the elements in an order the implementation chooses
SortOutcomes(s, rollback) ==
    IF ConsistentComparator(s) THEN { SortFiles(s, rollback) }
    ELSE Orderings(s)

\* readdirSync(...).filter(...).map(...).sort(...)
LoadCatalog(d, rollback) == SortOutcomes(FilterEligible(d), rollback)

(***************************************************************************)
(* Command-line options.  A name selector is a file name, <<>> when not    *)
(* passed; a revision selector is <<n>>, <<>> when not passed.             *)
(***************************************************************************)
NoName == <<>>

NoRev == <<>>

\* JavaScript truthiness of a string option: undefined and "" are falsy
TruthyName(n) == n # NoName

\* JavaScript truthiness of a Number option: undefined and 0 are falsy
TruthyRev(r) == r # NoRev /\ r[1] # 0

Options(to, from, toRev, fromRev, rollback, pos, noTransaction, list, help) ==
    [to |-> to, from |-> from, toRev |-> toRev, fromRev |-> fromRev,
     rollback |-> rollback, pos |-> pos, noTransaction |-> noTransaction,
     list |-> list, help |-> help]

\* the option defaults of optionDefinitions
DefaultOptions ==
    Options(NoName, NoName, NoRev, NoRev, FALSE, 0, FALSE, FALSE, FALSE)

(***************************************************************************)
(* Range resolution (variant 1).                                           *)
(***************************************************************************)
\* migrationFiles.find(e => e.migration ? e.migration.info.revision === rev : false):
\* the index of the first match, 0 when there is none
FindRevision(files, rev) ==
    LET hits == { i \in 1..Len(files) :
                    files[i].module = "ok" /\ files[i].revision = rev[1] }
    IN  IF rev = NoRev \/ hits = {} THEN 0
        ELSE CHOOSE i \in hits : \A j \in hits : i <= j

\* a plausible slip: the revision branches not guarded by the name selectors
ResolveRevisionFirst(files, o) ==
    LET t == FindRevision(files, o.toRev)
        f == FindRevision(files, o.fromRev)
    IN  [to |-> IF TruthyRev(o.toRev) /\ t # 0 THEN files[t].name ELSE o.to,
         from |-> IF TruthyRev(o.fromRev) /\ f # 0 THEN files[f].name ELSE o.from]

\* a plausible slip: the one-revision branches resolving the other endpoint
ResolveSwapped(files, o) ==
    LET t == FindRevision(files, o.toRev)
        f == FindRevision(files, o.fromRev)
    IN  IF ~TruthyName(o.to) /\ TruthyRev(o.toRev)
           /\ ~TruthyName(o.from) /\ TruthyRev(o.fromRev)
        THEN IF \/ (o.toRev[1] < o.fromRev[1] /\ o.rollback)
                \/ (o.toRev[1] > o.fromRev[1] /\ ~o.rollback)
             THEN IF t # 0 /\ f # 0
                  THEN [to |-> files[t].name, from |-> files[f].name]
                  ELSE [to |-> o.to, from |-> o.from]
             ELSE [to |-> o.to, from |-> o.from]
        ELSE IF ~TruthyName(o.to) /\ TruthyRev(o.toRev)
                /\ ~TruthyName(o.from) /\ ~TruthyRev(o.fromRev)
        THEN [to |-> o.to, from |-> IF t # 0 THEN files[t].name ELSE o.from]
        ELSE IF ~TruthyName(o.to) /\ ~TruthyRev(o.toRev)
                /\ ~TruthyName(o.from) /\ TruthyRev(o.fromRev)
        THEN [to |-> IF f # 0 THEN files[f].name ELSE o.to, from |-> o.from]
        ELSE [to |-> o.to, from |-> o.from]

\* methodOptions: the `to` and `from` handed to migrator.up / migrator.down
Resolve(files, o) ==
    LET t == FindRevision(files, o.toRev)
        f == FindRevision(files, o.fromRev)
    IN  IF ~TruthyName(o.to) /\ TruthyRev(o.toRev)
           /\ ~TruthyName(o.from) /\ TruthyRev(o.fromRev)
        THEN IF \/ (o.toRev[1] < o.fromRev[1] /\ o.rollback)
                \/ (o.toRev[1] > o.fromRev[1] /\ ~o.rollback)
             THEN IF t # 0 /\ f # 0
                  THEN [to |-> files[t].name, from |-> files[f].name]
                  ELSE [to |-> o.to, from |-> o.from]
             ELSE [to |-> o.to, from |-> o.from]
        ELSE IF ~TruthyName(o.to) /\ TruthyRev(o.toRev)
                /\ ~TruthyName(o.from) /\ ~TruthyRev(o.fromRev)
        THEN [to |-> IF t # 0 THEN files[t].name ELSE o.to, from |-> o.from]
        ELSE IF ~TruthyName(o.to) /\ ~TruthyRev(o.toRev)
                /\ ~TruthyName(o.from) /\ TruthyRev(o.fromRev)
        THEN [to |-> o.to, from |-> IF f # 0 THEN files[f].name ELSE o.from]
        ELSE [to |-> o.to, from |-> o.from]

\* variant 2 has no revision selectors: options.to and options.from as passed
PassThrough(o) == [to |-> o.to, from |-> o.from]

(***************************************************************************)
(* State.                                                                  *)
(***************************************************************************)
VARIABLES
    variant,        \* which variant of the script runs: 1 or 2
    dir,            \* the migrations directory, as readdirSync lists it
    store,          \* the tracking table SequelizeMeta: the applied names
    before,         \* the tracking table when the invocation began
    pc,             \* where the process is: idle, main, list, run, rejected, exited
    options,        \* commandLineArgs(optionDefinitions)
    migrationFiles, \* the catalog: the sorted list of eligible files
    migrator,       \* the migrations handed to Umzug by getMigrator
    methodOptions,  \* { to, from } handed to migrator.up / migrator.down
    queue,          \* the migrations of the range still to run
    report,         \* the migrations attempted, in order
    listed,         \* what --list printed
    outcome,        \* how the invocation ended
    exitCode,       \* the process exit code
    history         \* one entry per finished invocation

vars == << variant, dir, store, before, pc, options, migrationFiles, migrator,
           methodOptions, queue, report, listed, outcome, exitCode, history >>

NoRange == [to |-> NoName, from |-> NoName]

NothingListed == [executed |-> <<>>, pending |-> <<>>]

(***************************************************************************)
(* getMigrator.                                                            *)
(***************************************************************************)
\* a plausible slip: the check of the loaded migration missing
GetMigratorNeverThrows(files, v) == FALSE

\* variant 1 throws on a falsy export; variant 2 requires file.fullPath, whose
\* getter returns nothing, so require(undefined) throws for every file
GetMigratorThrows(files, v) ==
    IF v = 1 THEN \E i \in 1..Len(files) : files[i].module # "ok"
    ELSE files # <<>>

\* the migration objects: pos is set on EVERY migration when step > 0 (a
\* generated migration module starts with pos 0)
GetMigrator(files, step, useTransaction) ==
    [ i \in 1..Len(files) |->
        [name |-> files[i].name,
         pos |-> IF step > 0 THEN step ELSE 0,
         useTransaction |-> useTransaction] ]

(***************************************************************************)
(* The migration framework (Umzug with the Sequelize storage), as the      *)
(* specification describes its Runner and Executor.                        *)
(***************************************************************************)
IndexOfName(ms, n) ==
    LET hits == { i \in 1..Len(ms) : ms[i].name = n }
    IN  IF hits = {} THEN 0 ELSE CHOOSE i \in hits : \A j \in hits : i <= j

\* the sublist after `from` (exclusive) up to `to` (inclusive); an endpoint
\* that is unresolved, or names no migration, is no boundary
RangeOf(ms, range) ==
    LET f == IndexOfName(ms, range.from)
        t == IndexOfName(ms, range.to)
        hi == IF t = 0 THEN Len(ms) ELSE t
    IN  SubSeq(ms, f + 1, hi)

\* listApplied / listPending over the catalog
Executed(ms, applied) == SelectSeq(ms, LAMBDA m : m.name \in applied)

Pending(ms, applied) == SelectSeq(ms, LAMBDA m : m.name \notin applied)

\* markApplied / markReverted
Mark(applied, name, rollback) ==
    IF rollback THEN applied \ {name} ELSE applied \cup {name}

(***************************************************************************)
(* The option sets the specifications draw from.                           *)
(***************************************************************************)
RevSelectors == { NoRev, <<0>>, <<1>>, <<2>>, <<10>> }

NameSelectors(d) == { NoName } \cup { d[i].name : i \in 1..Len(d) }

\* every combination of the four selectors
AllSelectors(d) ==
    { Options(t, f, tr, fr, FALSE, 0, FALSE, FALSE, FALSE) :
        t \in NameSelectors(d), f \in NameSelectors(d),
        tr \in RevSelectors, fr \in RevSelectors }

\* no selector, one selector, or the two revision selectors together
FewSelectors(d) ==
    { o \in AllSelectors(d) :
        \/ Cardinality({ k \in {"to", "from", "toRev", "fromRev"} :
                           o[k] # <<>> }) <= 1
        \/ (o.to = NoName /\ o.from = NoName) }

WithFlags(o, rollback, pos, noTransaction, list, help) ==
    [o EXCEPT !.rollback = rollback, !.pos = pos,
              !.noTransaction = noTransaction, !.list = list, !.help = help]

(***************************************************************************)
(* The process.                                                            *)
(***************************************************************************)
\* a new process: per-invocation state is fresh, the directory and the
\* tracking table are what the previous invocation left
Begin(o) ==
    /\ options' = o
    /\ pc' = "main"
    /\ migrationFiles' = <<>>
    /\ migrator' = <<>>
    /\ methodOptions' = NoRange
    /\ queue' = <<>>
    /\ report' = <<>>
    /\ listed' = NothingListed
    /\ outcome' = "none"
    /\ exitCode' = 0
    /\ before' = store
    /\ UNCHANGED << variant, dir, store, history >>

\* the process ends; history keeps the tracking table before and after
Exit(how, code) ==
    /\ pc' = "exited"
    /\ outcome' = how
    /\ exitCode' = code
    /\ history' = Append(history,
                         [options |-> options, outcome |-> how,
                          before |-> before,
                          after |-> store])

\* process.exit(1) in variant 1; variant 2 only logs the error and the process
\* ends with exit code 0
ErrorExitCode(v) == IF v = 1 THEN 1 ELSE 0

\* a plausible slip: migrator.up called whatever the rollback flag says
DirectionAlwaysUp(o) == "up"

\* if (!rollback) migrator.up(...) else migrator.down(...)
Direction(o) == IF o.rollback THEN "down" ELSE "up"

\* Main, from the directory checks to its first await.  The models directory
\* is "missing", "broken" (require(modelsDir) throws) or "ok"; the migrations
\* directory exists or not.
Main ==
    /\ pc = "main"
    /\ \E models \in {"missing", "broken", "ok"}, migrationsDirExists \in BOOLEAN :
         IF models = "missing"
         THEN /\ Exit("models-missing", 0)
              /\ UNCHANGED << migrationFiles, migrator, methodOptions, queue >>
         ELSE IF ~migrationsDirExists
         THEN /\ Exit("migrations-missing", 0)
              /\ UNCHANGED << migrationFiles, migrator, methodOptions, queue >>
         ELSE IF options.help
         THEN /\ Exit("help", 0)
              /\ UNCHANGED << migrationFiles, migrator, methodOptions, queue >>
         ELSE IF models = "broken" \/ (variant = 1 /\ LoadThrows(dir))
         THEN /\ Exit("load-error", ErrorExitCode(variant))
              /\ UNCHANGED << migrationFiles, migrator, methodOptions, queue >>
         ELSE \E files \in LoadCatalog(dir, options.rollback) :
                LET ms == GetMigrator(files, options.pos, ~options.noTransaction)
                    range == IF variant = 1 THEN Resolve(files, options)
                             ELSE PassThrough(options)
                IN  IF GetMigratorThrows(files, variant)
                    THEN /\ Exit("migrator-error", ErrorExitCode(variant))
                         /\ migrationFiles' = files
                         /\ UNCHANGED << migrator, methodOptions, queue >>
                    ELSE IF options.list
                    THEN /\ pc' = "list"
                         /\ migrationFiles' = files
                         /\ migrator' = ms
                         /\ UNCHANGED << methodOptions, queue, outcome,
                                         exitCode, history >>
                    ELSE /\ pc' = "run"
                         /\ migrationFiles' = files
                         /\ migrator' = ms
                         /\ methodOptions' = range
                         /\ queue' = RangeOf(ms, range)
                         /\ UNCHANGED << outcome, exitCode, history >>
    /\ UNCHANGED << variant, dir, store, before, options, report, listed >>

\* a plausible slip: the process.exit(0) that ends the --list branch missing,
\* so that Main goes on to resolve the range and run it
ListMigrationsFallThrough ==
    /\ pc = "list"
    /\ listed' = [executed |-> Executed(migrator, store),
                  pending |-> Pending(migrator, store)]
    /\ pc' = "run"
    /\ methodOptions' = Resolve(migrationFiles, options)
    /\ queue' = RangeOf(migrator, Resolve(migrationFiles, options))
    /\ UNCHANGED << variant, dir, store, before, options, migrationFiles,
                    migrator, report, outcome, exitCode, history >>

\* the --list branch: print the executed and the pending migrations, exit 0
ListMigrations ==
    /\ pc = "list"
    /\ listed' = [executed |-> Executed(migrator, store),
                  pending |-> Pending(migrator, store)]
    /\ Exit("listed", 0)
    /\ UNCHANGED << variant, dir, store, before, options, migrationFiles,
                    migrator, methodOptions, queue, report >>

\* migrator.up / migrator.down at work: the next migration of the range is
\* attempted from its pos; when it succeeds the tracking table is updated
\* before the next one starts, when it fails the promise rejects
MigratorStep ==
    /\ pc = "run"
    /\ queue # <<>>
    /\ \E ok \in BOOLEAN :
         LET m == Head(queue)
             down == Direction(options) = "down"
             entry(result) == [name |-> m.name, direction |-> Direction(options),
                               outcome |-> result, pos |-> m.pos,
                               useTransaction |-> m.useTransaction]
         IN  IF ok
             THEN /\ store' = Mark(store, m.name, down)
                  /\ report' = Append(report,
                                      entry(IF down THEN "reverted" ELSE "applied"))
                  /\ queue' = Tail(queue)
                  /\ pc' = "run"
             ELSE /\ report' = Append(report, entry("errored"))
                  /\ pc' = "rejected"
                  /\ UNCHANGED << store, queue >>
    /\ UNCHANGED << variant, dir, before, options, migrationFiles, migrator,
                    methodOptions, listed, outcome, exitCode, history >>

\* the awaited promise resolved: the executed migrations are printed; variant 1
\* calls process.exit(0), variant 2 returns
MainDone ==
    /\ pc = "run"
    /\ queue = <<>>
    /\ Exit("completed", 0)
    /\ UNCHANGED << variant, dir, store, before, options, migrationFiles,
                    migrator, methodOptions, queue, report, listed >>

\* a plausible slip: the error logged and the run resumed after the migration
\* that failed
MainCatchAndContinue ==
    /\ pc = "rejected"
    /\ pc' = "run"
    /\ queue' = Tail(queue)
    /\ UNCHANGED << variant, dir, store, before, options, migrationFiles,
                    migrator, methodOptions, report, listed, outcome, exitCode,
                    history >>

\* catch (migError): the error is logged; variant 1 calls process.exit(1)
MainCatch ==
    /\ pc = "rejected"
    /\ Exit("failed", ErrorExitCode(variant))
    /\ UNCHANGED << variant, dir, store, before, options, migrationFiles,
                    migrator, methodOptions, queue, report, listed >>

(***************************************************************************)
(* Spec: one invocation, over every flag and a few selectors.              *)
(***************************************************************************)
Idle ==
    /\ pc = "idle"
    /\ options = DefaultOptions
    /\ migrationFiles = <<>>
    /\ migrator = <<>>
    /\ methodOptions = NoRange
    /\ queue = <<>>
    /\ report = <<>>
    /\ listed = NothingListed
    /\ outcome = "none"
    /\ exitCode = 0
    /\ history = <<>>

EligibleNames(d) == { d[i].name : i \in { j \in 1..Len(d) : Eligible(d[j].name) } }

Init ==
    /\ variant \in {1, 2}
    /\ dir \in MainDirs
    /\ store \in SUBSET EligibleNames(dir)
    /\ before = store
    /\ Idle

\* commandLineArgs(optionDefinitions): the process starts
Start ==
    /\ pc = "idle"
    /\ \E o \in FewSelectors(FilterEligible(dir)), rollback \in BOOLEAN,
          pos \in 0..MaxPos, noTransaction \in BOOLEAN, list \in BOOLEAN,
          help \in BOOLEAN :
         Begin(WithFlags(o, rollback, pos, noTransaction, list, help))

Next ==
    \/ Start
    \/ Main
    \/ ListMigrations
    \/ MigratorStep
    \/ MainDone
    \/ MainCatch

Spec == Init /\ [][Next]_vars

(***************************************************************************)
(* SpecCatalog: the catalog Main builds, over every directory of up to     *)
(* MaxFiles entries in every enumeration order, in both directions.        *)
(***************************************************************************)
InitCatalog ==
    /\ variant \in {1, 2}
    /\ dir \in Dirs
    /\ store = {}
    /\ before = {}
    /\ pc = "main"
    /\ options \in { WithFlags(DefaultOptions, rollback, 0, FALSE, FALSE, FALSE) :
                       rollback \in BOOLEAN }
    /\ migrationFiles = <<>>
    /\ migrator = <<>>
    /\ methodOptions = NoRange
    /\ queue = <<>>
    /\ report = <<>>
    /\ listed = NothingListed
    /\ outcome = "none"
    /\ exitCode = 0
    /\ history = <<>>

SpecCatalog == InitCatalog /\ [][Main]_vars

(***************************************************************************)
(* SpecResolve: the range Main resolves, over every combination of the     *)
(* four selectors and both directions, on every loadable directory.        *)
(***************************************************************************)
ResolveSelectors ==
    { Options(t, f, tr, fr, rollback, 0, FALSE, FALSE, FALSE) :
        t \in { NoName, F2b.name }, f \in { NoName, F1a.name },
        tr \in RevSelectors, fr \in RevSelectors, rollback \in BOOLEAN }

InitResolve ==
    /\ variant \in {1, 2}
    /\ dir \in GeneratedDirs
    /\ store = {}
    /\ before = {}
    /\ pc = "main"
    /\ options \in ResolveSelectors
    /\ migrationFiles = <<>>
    /\ migrator = <<>>
    /\ methodOptions = NoRange
    /\ queue = <<>>
    /\ report = <<>>
    /\ listed = NothingListed
    /\ outcome = "none"
    /\ exitCode = 0
    /\ history = <<>>

SpecResolve == InitResolve /\ [][Main]_vars

(***************************************************************************)
(* SpecRoundTrip: from an empty tracking table, invocations without        *)
(* selectors in a row, forward and rollback in turn.                       *)
(***************************************************************************)
InitRoundTrip ==
    /\ variant \in {1, 2}
    /\ dir \in MainDirs
    /\ store = {}
    /\ before = {}
    /\ Idle

StartRoundTrip ==
    /\ pc \in {"idle", "exited"}
    /\ Len(history) < MaxRuns
    /\ \E pos \in 0..MaxPos, noTransaction \in BOOLEAN :
         Begin(WithFlags(DefaultOptions, Len(history) % 2 = 1, pos,
                         noTransaction, FALSE, FALSE))

NextRoundTrip ==
    \/ StartRoundTrip
    \/ Main
    \/ MigratorStep
    \/ MainDone
    \/ MainCatch

SpecRoundTrip == InitRoundTrip /\ [][NextRoundTrip]_vars

(***************************************************************************)
(* Properties.                                                             *)
(***************************************************************************)
\* Main got as far as building the catalog
CatalogBuilt ==
    \/ pc \in {"list", "run", "rejected"}
    \/ pc = "exited" /\ outcome \in {"migrator-error", "listed", "completed", "failed"}

EligibleFiles(d) == { d[i] : i \in { j \in 1..Len(d) : Eligible(d[j].name) } }

\* every eligible file name starts with digits
AllNumeric(d) == \A f \in EligibleFiles(d) : NameRevision(f.name) # NaN

NoSelectors(o) ==
    o.to = NoName /\ o.from = NoName /\ o.toRev = NoRev /\ o.fromRev = NoRev

\* C1: when every eligible file name starts with a numeric revision, the
\* catalog Main builds is in non-decreasing order of revision on a forward
\* run and in non-increasing order on a rollback, and it holds exactly the
\* eligible files of the directory, each once.
C1_CatalogOrdered ==
    (CatalogBuilt /\ AllNumeric(dir)) =>
        /\ \A i \in 1..(Len(migrationFiles) - 1) :
             LET a == NameRevision(migrationFiles[i].name)
                 b == NameRevision(migrationFiles[i + 1].name)
             IN  IF options.rollback THEN a >= b ELSE a <= b
        /\ Range(migrationFiles) = EligibleFiles(dir)
        /\ Len(migrationFiles) = Cardinality(EligibleFiles(dir))

\* C1 witness: a forward run on a directory listed out of order, with a
\* dot file beside it, sorted numerically (10 after 2)
C1_Witness ==
    /\ pc = "run"
    /\ variant = 1
    /\ ~options.rollback
    /\ dir = << F10c, FDot5g, F2b >>
    /\ migrationFiles = << F2b, F10c >>

\* C2: a name selector that is passed is what the migrator gets for that
\* endpoint, whatever the revision selectors and the direction are.
C2_NamesTakePrecedence ==
    pc = "run" =>
        /\ TruthyName(options.to) => methodOptions.to = options.to
        /\ TruthyName(options.from) => methodOptions.from = options.from

\* C2 witness: --to with a --toRev that names another migration of the catalog
C2_Witness ==
    /\ pc = "run"
    /\ variant = 1
    /\ options.to = F2b.name
    /\ options.toRev = <<1>>
    /\ options.from = NoName
    /\ options.fromRev = <<2>>
    /\ F1a \in Range(migrationFiles)
    /\ F2b \in Range(migrationFiles)
    /\ methodOptions.to = F2b.name

\* toRev and fromRev point the way the run goes
DirectionConsistent(o) ==
    IF o.rollback THEN o.toRev[1] < o.fromRev[1] ELSE o.toRev[1] > o.fromRev[1]

\* C3: with both revision selectors passed and no name selector, a pair that
\* is not directionally consistent leaves both endpoints unresolved.
C3_InconsistentPairUnresolved ==
    ( /\ pc = "run"
      /\ variant = 1
      /\ options.to = NoName /\ options.from = NoName
      /\ options.toRev # NoRev /\ options.fromRev # NoRev
      /\ ~DirectionConsistent(options) )
    => methodOptions = NoRange

\* the same for pairs of non-zero revisions, where the script's truthiness
\* test and "passed" agree
C3_NonZeroPairs ==
    ( /\ pc = "run"
      /\ variant = 1
      /\ options.to = NoName /\ options.from = NoName
      /\ TruthyRev(options.toRev) /\ TruthyRev(options.fromRev)
      /\ ~DirectionConsistent(options) )
    => methodOptions = NoRange

\* the name of the first catalog record whose info.revision is r, NoName if none
NameOfRevision(files, r) ==
    IF \E i \in 1..Len(files) : files[i].revision = r
    THEN files[CHOOSE i \in 1..Len(files) :
                 /\ files[i].revision = r
                 /\ \A j \in 1..(i - 1) : files[j].revision # r].name
    ELSE NoName

SelectedRange == RangeOf(migrator, methodOptions)

\* C5: the migrations of the range are attempted one at a time in catalog
\* order; after the first failure nothing more is attempted and the run ends
\* failed; every migration that completed stays marked applied (forward) or
\* removed (rollback) in the tracking table.
C5_FailFast ==
    /\ Len(report) <= Len(SelectedRange)
    /\ \A i \in 1..Len(report) : report[i].name = SelectedRange[i].name
    /\ \A i \in 1..Len(migrator) : migrator[i].name = migrationFiles[i].name
    /\ \A i \in 1..(Len(report) - 1) : report[i].outcome # "errored"
    /\ (report # <<>> /\ report[Len(report)].outcome = "errored") =>
          /\ pc \in {"rejected", "exited"}
          /\ pc = "exited" => outcome = "failed"
    /\ \A i \in 1..Len(report) :
          /\ report[i].outcome = "applied" => report[i].name \in store
          /\ report[i].outcome = "reverted" => report[i].name \notin store

\* C5 witness: [1-a, 2-b, 10-c] with 2-b failing in a transaction: 1-a applied
\* and still marked, 2-b errored, 10-c never attempted
C5_Witness ==
    /\ pc = "exited"
    /\ outcome = "failed"
    /\ dir = << F10c, F1a, F2b >>
    /\ before = {}
    /\ Len(report) = 2
    /\ report[1].name = F1a.name /\ report[1].outcome = "applied"
    /\ report[1].useTransaction
    /\ report[2].name = F2b.name /\ report[2].outcome = "errored"
    /\ store = { F1a.name }
    /\ Len(queue) = 2

\* C6: the exit code is 0 exactly when the invocation succeeded, listed or
\* printed the help; every error ends with a non-zero exit code.
C6_ExitCodeReflectsOutcome ==
    pc = "exited" =>
        (exitCode = 0 <=> outcome \in {"completed", "listed", "help"})

C8_RoundTrip ==
    \A i \in 1..(Len(history) - 1) :
        ( /\ history[i].before = {}
          /\ ~history[i].options.rollback
          /\ NoSelectors(history[i].options)
          /\ history[i].outcome = "completed"
          /\ history[i + 1].options.rollback
          /\ NoSelectors(history[i + 1].options)
          /\ history[i + 1].outcome = "completed" )
        => history[i + 1].after = {}

\* C8 witness: three migrations applied by the first run, none left by the second
C8_Witness ==
    /\ Len(history) = 2
    /\ history[1].outcome = "completed"
    /\ history[1].before = {}
    /\ Cardinality(history[1].after) = 3
    /\ history[2].outcome = "completed"
    /\ history[2].options.rollback
    /\ Len(report) = 3
    /\ store = {}

\* C9: the first migration of a run starts at --pos, every later one at 0.
C9_PosFirstOnly ==
    \A i \in 1..Len(report) :
        report[i].pos = IF i = 1 THEN options.pos ELSE 0

\* an eligible file whose script does not load: require throws, or the export
\* is falsy
SomeLoadError(d) == \E f \in EligibleFiles(d) : f.module # "ok"

\* an eligible file whose revision prefix is not numeric
SomeParseError(d) == \E f \in EligibleFiles(d) : NameRevision(f.name) = NaN

\* C10 as claimed: a missing migrations directory, a non-numeric revision
\* prefix or a script that fails to load means nothing is attempted and the
\* tracking table is unchanged.
C10_BadFileBlocksRun ==
    (outcome = "migrations-missing" \/ SomeParseError(dir) \/ SomeLoadError(dir))
    => (report = <<>> /\ store = before)

\* C10 amended: a missing migrations directory or a script that fails to load
\* means nothing is attempted and the tracking table is unchanged.
C10_LoadErrorsAbort ==
    (outcome = "migrations-missing" \/ SomeLoadError(dir))
    => (report = <<>> /\ store = before)

\* C10 witness: a script that fails to load beside an applied migration
C10_Witness ==
    /\ pc = "exited"
    /\ variant = 1
    /\ outcome = "load-error"
    /\ dir = << F1a, F3e >>
    /\ ~options.list /\ ~options.help
    /\ before = { F1a.name }
    /\ store = before
    /\ report = <<>>

====
